---- MODULE Spec2Model ----
(***************************************************************************)
(* A model of PinochleBiddingEnv (src/pinochle_bidding_env.py) with the    *)
(* deck (src/deck.py), the deck/meld configuration (src/config.py) and the *)
(* meld evaluator (src/hand_evaluator.py).                                 *)
(*                                                                         *)
(* A card is the pair <<value, suit>> for the Python string value+suit.    *)
(* A hand is a sequence (a Python list: order decides min/max ties, the    *)
(* stable sort and which copy list.remove deletes).  Seats are 0..3.       *)
(***************************************************************************)
EXTENDS Integers, Sequences, FiniteSets, TLC

(***************************************************************************)
(* Bounds of the model.                                                    *)
(***************************************************************************)
\* random.shuffle is modelled by the permutations i |-> (g*i) mod 49 of the
\* 48 deck positions, g in 1..NumShuffles (g = 1 leaves the deck unshuffled).
NumShuffles == 5
\* random.randint(current_bid+1, 50) is sampled by the MaxRaise lowest values
\* of the range and its top value 50.
MaxRaise == 1
\* Bidding steps are explored while bidding_history is shorter than this.
MaxHistory == 5

(***************************************************************************)
(* config.py                                                               *)
(***************************************************************************)
values == <<"9", "10", "J", "Q", "K", "A">>
suits == <<"C", "D", "H", "S">>
occurrences == 2

Seats == 0..3

\* F applied to the value of v (v is evaluated once, before F uses it).
Let(v, F(_)) == CHOOSE r \in {F(x) : x \in {v}} : TRUE

Max(a, b) == IF a >= b THEN a ELSE b
Min(a, b) == IF a <= b THEN a ELSE b

(***************************************************************************)
(* deck.py                                                                 *)
(***************************************************************************)
\* Deck.__init__: [value+suit for value in values for suit in suits], then
\* the list repeated `occurrences` times.
DeckBase ==
  [i \in 1..(Len(values) * Len(suits)) |->
     <<values[((i - 1) \div Len(suits)) + 1], suits[((i - 1) % Len(suits)) + 1]>>]

RECURSIVE Repeat(_, _)
Repeat(s, n) == IF n = 0 THEN <<>> ELSE s \o Repeat(s, n - 1)

DeckCards == Repeat(DeckBase, occurrences)

\* Deck.shuffle: a permutation of self.cards.  Position i of the shuffled deck
\* holds the card that was at position (g*i) mod 49 (a bijection of 1..48
\* whenever 7 does not divide g).
ShuffleKeys == {g \in 1..NumShuffles : g % 7 # 0}

Shuffled(cards, g) == [i \in 1..Len(cards) |-> cards[(g * i) % (Len(cards) + 1)]]

\* The cards at the positions of `kept`, in deck order (the appends of one
\* player's list in Deck.deal).
SelectIdx(cards, kept) ==
  LET F[i \in 0..Len(cards)] ==
        IF i = 0 THEN <<>>
        ELSE IF i \in kept THEN Append(F[i - 1], cards[i]) ELSE F[i - 1]
  IN F[Len(cards)]

\* Deck.deal: card at 0-based index i goes to player i % numPlayers.
DealIndex(index, numPlayers) == index % numPlayers

\* deal with the loop stopping one card early.
deal_DropsLast(cards, numPlayers) ==
  [p \in 0..(numPlayers - 1) |->
     SelectIdx(cards, {i \in 1..(Len(cards) - 1) : DealIndex(i - 1, numPlayers) = p})]

deal(cards, numPlayers) ==
  [p \in 0..(numPlayers - 1) |->
     SelectIdx(cards, {i \in 1..Len(cards) : DealIndex(i - 1, numPlayers) = p})]

\* PinochleBiddingEnv.deal_hands for the shuffle g: Deck(), shuffle(), deal(4).
deal_hands(g) == deal(Shuffled(DeckCards, g), 4)

\* The deals of the explored shuffles.
Deals == [g \in ShuffleKeys |-> deal_hands(g)]

(***************************************************************************)
(* Cards                                                                   *)
(***************************************************************************)
Value(c) == c[1]
Suit(c) == c[2]

\* card_rank: order = {'9':0,'J':1,'Q':2,'K':3,'10':4,'A':5}
card_rank(c) ==
  CASE Value(c) = "9" -> 0
    [] Value(c) = "J" -> 1
    [] Value(c) = "Q" -> 2
    [] Value(c) = "K" -> 3
    [] Value(c) = "10" -> 4
    [] Value(c) = "A" -> 5

\* Position of the card's string among all card strings in Python's string
\* order (used by sorted()): '1' < '9' < 'A' < 'J' < 'K' < 'Q', then the suit
\* letter C < D < H < S.
StrKey(c) ==
  LET v == CASE Value(c) = "10" -> 0
             [] Value(c) = "9" -> 1
             [] Value(c) = "A" -> 2
             [] Value(c) = "J" -> 3
             [] Value(c) = "K" -> 4
             [] Value(c) = "Q" -> 5
      s == CHOOSE k \in 1..Len(suits) : suits[k] = Suit(c)
  IN v * 4 + (s - 1)

\* list.count(card)
Count(hand, c) == Cardinality({i \in 1..Len(hand) : hand[i] = c})

\* Python's stable sort (sorted / list.sort) of seq, keys[i] being the
\* integer key of seq[i]: element i lands behind every element with a smaller
\* key and every earlier element with the same key.
SortByKey(seq, keys) ==
  Let(<<seq, keys>>, LAMBDA sk :
    LET s == sk[1]
        key == sk[2]
        pos(i) == 1 + Cardinality({j \in 1..Len(s) :
                         \/ key[j] < key[i]
                         \/ key[j] = key[i] /\ j < i})
    IN [k \in 1..Len(s) |-> s[CHOOSE i \in 1..Len(s) : pos(i) = k]])

\* hand.sort(key=card_rank)
SortByRank(hand) ==
  Let(hand, LAMBDA h : SortByKey(h, [i \in 1..Len(h) |-> card_rank(h[i])]))

\* sorted(hand): the card strings in Python's string order.
Sorted(hand) ==
  Let(hand, LAMBDA h : SortByKey(h, [i \in 1..Len(h) |-> StrKey(h[i])]))

\* list.remove(card): delete the first occurrence.
Remove(hand, c) ==
  LET k == CHOOSE i \in 1..Len(hand) :
             hand[i] = c /\ \A j \in 1..(i - 1) : hand[j] # c
  IN SubSeq(hand, 1, k - 1) \o SubSeq(hand, k + 1, Len(hand))

\* for card in cards: hand.remove(card)
RemoveAll(hand, cards) ==
  LET F[i \in 0..Len(cards)] ==
        IF i = 0 THEN hand ELSE Let(F[i - 1], LAMBDA h : Remove(h, cards[i]))
  IN F[Len(cards)]

\* min(hand, key=card_rank) / max(hand, key=card_rank): the first element
\* with the least / greatest rank.
MinByRank(hand) ==
  Let(hand, LAMBDA h :
    h[CHOOSE i \in 1..Len(h) :
        /\ \A j \in 1..Len(h) : card_rank(h[i]) <= card_rank(h[j])
        /\ \A j \in 1..(i - 1) : card_rank(h[j]) > card_rank(h[i])])

MaxByRank(hand) ==
  Let(hand, LAMBDA h :
    h[CHOOSE i \in 1..Len(h) :
        /\ \A j \in 1..Len(h) : card_rank(h[i]) >= card_rank(h[j])
        /\ \A j \in 1..(i - 1) : card_rank(h[j]) < card_rank(h[i])])

(***************************************************************************)
(* State of a PinochleBiddingEnv                                           *)
(***************************************************************************)
VARIABLES
  hands,            \* self.hands: seat -> list of cards
  phase,            \* self.phase: "bidding" | "passing" | "trick"
  current_bid,      \* self.current_bid
  active,           \* self.active: seat -> bool
  current_turn,     \* self.current_turn
  bidding_history,  \* self.bidding_history: list of (seat, bid)
  winning_bid,      \* self.winning_bid    (NoValue until first set)
  winning_player,   \* self.winning_player (NoValue until first set)
  winning_team,     \* self.winning_team   ("none" until first set)
  trump_suit,       \* self.trump_suit     ("none" until first set)
  done,             \* the done flag of the last return of step
  info,             \* which info dict the last call returned
  main_reward,      \* main_reward of the last trick step (0 otherwise)
  totals,           \* <<ml_total, opp_total, ml_trick_points, opp_trick_points>>
  passed_cards,     \* info["passed_cards"] of the last passing step
  passed_back,      \* info["passed_back"] of the last passing step
  sim,              \* the locals of a running simulate_round call
  playout,          \* the state of a running _simulate_random_playout call
  meld,             \* a hand given to evaluate and the points returned
  oracle            \* the locals of a running compute_optimal_pass call

vars == <<hands, phase, current_bid, active, current_turn, bidding_history,
          winning_bid, winning_player, winning_team, trump_suit,
          done, info, main_reward, totals, passed_cards, passed_back,
          sim, playout, meld, oracle>>

\* The variables of the calls that are stepped through on their own.
engine == <<sim, playout, meld, oracle>>

\* No simulate_round, playout or evaluate call is being stepped through.
Idle == [pc |-> "idle"]

EngineIdle ==
  /\ sim = Idle
  /\ playout = Idle
  /\ meld = Idle
  /\ oracle = Idle

\* An attribute that __init__ does not assign.
NoValue == -1

\* TeamOf with the partnerships taken as adjacent seats.
TeamOf_Adjacent(seat) == IF seat \in {0, 1} THEN "ML" ELSE "OPP"

\* players[i]["team"] (lines 325-328); winner in [0, 2] (line 144).
TeamOf(seat) == IF seat \in {0, 2} THEN "ML" ELSE "OPP"

(***************************************************************************)
(* hand_evaluator.py and the meld table of config.py                       *)
(***************************************************************************)
OfValue(v) == {<<v, suits[k]>> : k \in 1..Len(suits)}
Marriage(s) == {<<"K", s>>, <<"Q", s>>}
Run(s) == {<<"J", s>>, <<"Q", s>>, <<"K", s>>, <<"10", s>>, <<"A", s>>}
Pinochle == {<<"Q", "S">>, <<"J", "D">>}

Meld(n, c, v, o) == [name |-> n, cards |-> c, value |-> v, occurrences |-> o]

meldHands == <<
  Meld("Round Of Aces", OfValue("A"), 10, 1),
  Meld("Round Of Kings", OfValue("K"), 8, 1),
  Meld("Round Of Queens", OfValue("Q"), 6, 1),
  Meld("Round Of Jacks", OfValue("J"), 4, 1),
  Meld("All Aces", OfValue("A"), 90, 2),
  Meld("All Kings", OfValue("K"), 72, 2),
  Meld("All Queens", OfValue("Q"), 54, 2),
  Meld("All Jacks", OfValue("J"), 36, 2),
  Meld("Marriage Clubs", Marriage("C"), 2, 1),
  Meld("Double Marriage Clubs", Marriage("C"), 2, 2),
  Meld("Marriage Diamonds", Marriage("D"), 2, 1),
  Meld("Double Marriage Diamonds", Marriage("D"), 2, 2),
  Meld("Marriage Hearts", Marriage("H"), 2, 1),
  Meld("Double Marriage Hearts", Marriage("H"), 2, 2),
  Meld("Marriage Spades", Marriage("S"), 2, 1),
  Meld("Double Marriage Spades", Marriage("S"), 2, 2),
  Meld("Run in Clubs", Run("C"), 13, 1),
  Meld("Run in Diamonds", Run("D"), 13, 1),
  Meld("Run in Hearts", Run("H"), 13, 1),
  Meld("Run in Spades", Run("S"), 13, 1),
  Meld("Double Run in Clubs", Run("C"), 133, 2),
  Meld("Double Run in Diamonds", Run("D"), 133, 2),
  Meld("Double Run in Hearts", Run("H"), 133, 2),
  Meld("Double Run in Spades", Run("S"), 133, 2),
  Meld("Pinochle", Pinochle, 4, 1),
  Meld("Double Pinochle", Pinochle, 26, 2) >>

\* MeldHeld with each card required exactly `occurrences` times.
MeldHeld_Exact(hand, m) == \A c \in m.cards : Count(hand, c) = m.occurrences

\* all(hand.count(card) >= occurrences for card in cards)
MeldHeld(hand, m) == \A c \in m.cards : Count(hand, c) >= m.occurrences

\* evaluate awarding only the most valuable meld the hand holds.
evaluate_BestOnly(hand) ==
  LET F[i \in 0..Len(meldHands)] ==
        IF i = 0 THEN 0
        ELSE Max(F[i - 1], IF MeldHeld(hand, meldHands[i]) THEN meldHands[i].value ELSE 0)
  IN F[Len(meldHands)]

\* evaluate (hand_evaluator.py lines 4-11): the sum of the values of the
\* melds the hand holds.  The source iterates config.meldHands.iteritems(),
\* the Python 2 spelling of items(); the model is the iteration over the
\* table that the call denotes.
evaluate(hand) ==
  LET F[i \in 0..Len(meldHands)] ==
        IF i = 0 THEN 0
        ELSE F[i - 1] + (IF MeldHeld(hand, meldHands[i]) THEN meldHands[i].value ELSE 0)
  IN F[Len(meldHands)]

(***************************************************************************)
(* simulate_round (lines 323-393)                                          *)
(***************************************************************************)
\* trick_cards is a sequence of <<player_idx, card>>.
PlayedCards(trick_cards) == [k \in 1..Len(trick_cards) |-> trick_cards[k][2]]

OfSuit(cards, s) == SelectSeq(cards, LAMBDA c : Suit(c) = s)
NotOfSuit(cards, s) == SelectSeq(cards, LAMBDA c : Suit(c) # s)
Beating(cards, high) == SelectSeq(cards, LAMBDA c : card_rank(c) > card_rank(high))

\* LeadCard without the Ace-of-trump rule of lines 341-342.
LeadCard_NoAce(hand, isWinner, trump) ==
  LET non_trump == NotOfSuit(hand, trump)
  IN IF non_trump # <<>> THEN MaxByRank(non_trump) ELSE MinByRank(hand)

\* Lines 341-345: the card the leader of a trick plays.
LeadCard(hand, isWinner, trump) ==
  LET aces == SelectSeq(hand, LAMBDA c : Suit(c) = trump /\ Value(c) = "A")
      non_trump == NotOfSuit(hand, trump)
  IN IF isWinner /\ aces # <<>> THEN aces[1]
     ELSE IF non_trump # <<>> THEN MaxByRank(non_trump)
     ELSE MinByRank(hand)

\* LowestBeating with the highest beating card chosen.
LowestBeating_Highest(cards, high) ==
  Let(high, LAMBDA current_high :
    Let(Beating(cards, current_high), LAMBDA can_beat :
      IF can_beat # <<>> THEN MaxByRank(can_beat) ELSE MinByRank(cards)))

\* Lines 356, 368: the lowest card that beats `high`, else the lowest card.
LowestBeating(cards, high) ==
  Let(high, LAMBDA current_high :
    Let(Beating(cards, current_high), LAMBDA can_beat :
      IF can_beat # <<>> THEN MinByRank(can_beat) ELSE MinByRank(cards)))

\* FollowCard in which a seat void in the led suit discards its lowest card
\* whether or not it holds a trump.
FollowCard_VoidDiscards(hand, trick_cards, led_suit, trump) ==
  LET played == PlayedCards(trick_cards)
      follow == OfSuit(hand, led_suit)
      played_trumps == OfSuit(played, trump)
      current_follow == OfSuit(played, led_suit)
  IN IF follow # <<>>
     THEN IF played_trumps = <<>>
          THEN IF current_follow # <<>>
               THEN LowestBeating(follow, MaxByRank(current_follow))
               ELSE MinByRank(follow)
          ELSE MinByRank(follow)
     ELSE MinByRank(hand)

\* Lines 348-372: the card a seat plays after the lead.
FollowCard(hand, trick_cards, led_suit, trump) ==
  LET played == PlayedCards(trick_cards)
      follow == OfSuit(hand, led_suit)
      trumps == OfSuit(hand, trump)
      played_trumps == OfSuit(played, trump)
      current_follow == OfSuit(played, led_suit)
  IN IF follow # <<>>
     THEN IF played_trumps = <<>>
          THEN IF current_follow # <<>>
               THEN LowestBeating(follow, MaxByRank(current_follow))
               ELSE MinByRank(follow)
          ELSE MinByRank(follow)
     ELSE IF trumps # <<>>
          THEN IF played_trumps # <<>>
               THEN LowestBeating(trumps, MaxByRank(played_trumps))
               ELSE MinByRank(trumps)
          ELSE MinByRank(hand)

\* PlayTurn with the played card left in the hand (no hand.remove(card)).
PlayTurn_KeepsCard(st, i, wp, trump) ==
  LET player_idx == (st.leader + i) % 4
      hand == st.hand[player_idx]
      Played(card) ==
        [st EXCEPT !.led = IF st.led = "none" THEN Suit(card) ELSE st.led,
                   !.trick_cards = Append(st.trick_cards, <<player_idx, card>>)]
  IN IF hand = <<>> THEN st
     ELSE Let(IF st.led = "none"
              THEN LeadCard(hand, player_idx = wp, trump)
              ELSE FollowCard(hand, st.trick_cards, st.led, trump),
              Played)

\* Lines 336-374: the i-th turn of a trick.  st.led is the led suit ("none"
\* for None).
PlayTurn(st, i, wp, trump) ==
  LET player_idx == (st.leader + i) % 4
      hand == st.hand[player_idx]
      Played(card) ==
        [st EXCEPT !.hand = [p \in Seats |-> IF p = player_idx
                                             THEN Remove(hand, card)
                                             ELSE st.hand[p]],
                   !.led = IF st.led = "none" THEN Suit(card) ELSE st.led,
                   !.trick_cards = Append(st.trick_cards, <<player_idx, card>>)]
  IN IF hand = <<>> THEN st
     ELSE Let(IF st.led = "none"
              THEN LeadCard(hand, player_idx = wp, trump)
              ELSE FollowCard(hand, st.trick_cards, st.led, trump),
              Played)

\* max(plays, key=lambda x: card_rank(x[1])): the first play of greatest rank.
MaxPlay(plays) ==
  plays[CHOOSE i \in 1..Len(plays) :
          /\ \A j \in 1..Len(plays) : card_rank(plays[i][2]) >= card_rank(plays[j][2])
          /\ \A j \in 1..(i - 1) : card_rank(plays[j][2]) < card_rank(plays[i][2])]

\* WinningPlay in which trumps do not count: the best card of the led suit.
WinningPlay_LedOnly(trick_cards, led_suit, trump) ==
  MaxPlay(SelectSeq(trick_cards, LAMBDA x : Suit(x[2]) = led_suit))

\* Lines 375-380: the play that wins the trick.
WinningPlay(trick_cards, led_suit, trump) ==
  LET trump_plays == SelectSeq(trick_cards, LAMBDA x : Suit(x[2]) = trump)
      led_plays == SelectSeq(trick_cards, LAMBDA x : Suit(x[2]) = led_suit)
  IN IF trump_plays # <<>> THEN MaxPlay(trump_plays) ELSE MaxPlay(led_plays)

\* Line 382: one point for each king, ten and ace.
IsCounter(c) == Value(c) \in {"K", "10", "A"}

\* Lines 383-384: the trick that earns the bonus point.
LastTrick == 11

\* TrickPoints with the bonus point added on every trick and each counter
\* worth two points.
TrickPoints_Double(trick_cards, trick) ==
  2 * Cardinality({k \in 1..Len(trick_cards) : IsCounter(trick_cards[k][2])}) + 1

TrickPoints(trick_cards, trick) ==
  Cardinality({k \in 1..Len(trick_cards) : IsCounter(trick_cards[k][2])})
    + (IF trick = LastTrick THEN 1 ELSE 0)

\* Lines 375-386: resolve the trick and start the next one.
Resolve(st, trick, trump) ==
  LET pts == TrickPoints(st.trick_cards, trick)
      Won(winner) ==
        [st EXCEPT !.leader = winner,
                   !.led = "none",
                   !.trick_cards = <<>>,
                   !.ML = IF TeamOf(winner) = "ML" THEN @ + pts ELSE @,
                   !.OPP = IF TeamOf(winner) = "OPP" THEN @ + pts ELSE @]
  IN Let(WinningPlay(st.trick_cards, st.led, trump)[1], Won)

\* Lines 335-386: the four turns of one trick, then its resolution.
PlayTrick(st, trick, wp, trump) ==
  Let(PlayTurn(st, 0, wp, trump), LAMBDA s1 :
    Let(PlayTurn(s1, 1, wp, trump), LAMBDA s2 :
      Let(PlayTurn(s2, 2, wp, trump), LAMBDA s3 :
        Let(PlayTurn(s3, 3, wp, trump), LAMBDA s4 :
          Resolve(s4, trick, trump)))))

\* Line 332: for trick in range(12)
NumTricks == 12

RECURSIVE PlayTricks(_, _, _, _)
PlayTricks(st, trick, wp, trump) ==
  IF trick = NumTricks THEN st
  ELSE Let(PlayTrick(st, trick, wp, trump),
           LAMBDA nxt : PlayTricks(nxt, trick + 1, wp, trump))

\* simulate_round on the hands hs with self.winning_player = wp and
\* self.trump_suit = trump: <<ml_total, opp_total, ml_trick_points,
\* opp_trick_points>>.
simulate_round(hs, wp, trump) ==
  LET st0 == [hand |-> hs, leader |-> wp, led |-> "none", trick_cards |-> <<>>,
              ML |-> 0, OPP |-> 0]
      ml_meld == evaluate(hs[0]) + evaluate(hs[2])
      opp_meld == evaluate(hs[1]) + evaluate(hs[3])
  IN Let(PlayTricks(st0, 0, wp, trump),
         LAMBDA fin : <<ml_meld + fin.ML, opp_meld + fin.OPP, fin.ML, fin.OPP>>)

(***************************************************************************)
(* Inputs                                                                  *)
(***************************************************************************)
\* Actions submitted in the bidding phase, all inside the declared action
\* space Discrete(51): pass, a bid below the current bid, a bid under the
\* floor, a middle bid and the top bid.
BidActions == {0, 1, 25, 40, 50}

\* Outcomes of random.randint(lo, hi) that are explored: the n lowest values
\* and the top value.  With n = 0 only the runs in which random.random() < 0.5
\* (the seat passes) are explored.
RandInt(lo, hi, n) == IF n = 0 THEN {} ELSE {b \in lo..hi : b < lo + n \/ b = hi}

(***************************************************************************)
(* Bidding                                                                 *)
(***************************************************************************)
\* sum(self.active)
NumActive(act) == Cardinality({s \in Seats : act[s]})

\* self.active.index(False): the first seat that has passed.
FirstActive_Passed(act) == CHOOSE s \in Seats : ~act[s] /\ \A t \in 0..(s - 1) : act[t]

\* self.active.index(True)
FirstActive(act) == CHOOSE s \in Seats : act[s] /\ \A t \in 0..(s - 1) : ~act[t]

\* select_trump: max(counts, key=counts.get) over the suits in config order;
\* the first suit with the greatest count.
SuitCount(hand, s) == Cardinality({i \in 1..Len(hand) : Suit(hand[i]) = s})

\* select_trump taking the last suit with the greatest count.
select_trump_Last(hand) ==
  suits[CHOOSE k \in 1..Len(suits) :
          /\ \A j \in 1..Len(suits) : SuitCount(hand, suits[k]) >= SuitCount(hand, suits[j])
          /\ \A j \in (k + 1)..Len(suits) : SuitCount(hand, suits[j]) < SuitCount(hand, suits[k])]

select_trump(hand) ==
  suits[CHOOSE k \in 1..Len(suits) :
          /\ \A j \in 1..Len(suits) : SuitCount(hand, suits[k]) >= SuitCount(hand, suits[j])
          /\ \A j \in 1..(k - 1) : SuitCount(hand, suits[j]) < SuitCount(hand, suits[k])]

\* MLBid with the clamp testing bid < current_bid instead of <=.
MLBid_ClampLess(action, cb) ==
  IF action = 0 THEN 0
  ELSE LET b1 == IF action < cb THEN cb + 1 ELSE action
       IN IF cb < 30 /\ b1 < 30 THEN Max(30, cb + 1) ELSE b1

\* MLBid without the floor of lines 113-114.
MLBid_NoFloor(action, cb) ==
  IF action = 0 THEN 0
  ELSE IF action <= cb THEN cb + 1 ELSE action

\* Lines 107-114: the bid of seat 0 for `action`.
MLBid(action, cb) ==
  IF action = 0 THEN 0
  ELSE LET b1 == IF action <= cb THEN cb + 1 ELSE action
       IN IF cb < 30 /\ b1 < 30 THEN Max(30, cb + 1) ELSE b1

\* Line 123: seat 2 passes when only seats 0 and 2 are active.
PairingPass(turn, act) == turn = 2 /\ act[0] /\ act[2] /\ ~act[1] /\ ~act[3]

\* Lines 123-132: the bids a non-ML seat may make (0 = pass).
NonMLBids(turn, act, cb, n) ==
  IF PairingPass(turn, act) THEN {0}
  ELSE IF cb >= 50 THEN {0}
  ELSE {0} \cup RandInt(cb + 1, 50, n)

\* Lines 105-114, 123-132: the bids the seat whose turn it is may make.
TurnBids(action, n) ==
  IF current_turn = 0 THEN {MLBid(action, current_bid)}
  ELSE NonMLBids(current_turn, active, current_bid, n)

\* ActiveAfter in which a pass leaves the seat active.
ActiveAfter_Keeps(act, turn, bid) == act

\* Lines 116-119, 134-137.
ActiveAfter(act, turn, bid) == IF bid = 0 THEN [act EXCEPT ![turn] = FALSE] ELSE act
BidAfter(cb, bid) == IF bid = 0 THEN cb ELSE bid

\* Line 142.
ForcedWinningBid == 20

\* Line 63.
OpeningBid == 20

\* Line 150: the last four entries of the history are passes.
AllPassed(hist) ==
  /\ Len(hist) >= 4
  /\ \A i \in (Len(hist) - 3)..Len(hist) : hist[i][2] = 0

Init ==
  /\ \E g \in ShuffleKeys : hands = Deals[g]
  /\ phase = "bidding"
  /\ current_bid = OpeningBid
  /\ active = [s \in Seats |-> TRUE]
  /\ current_turn = 0
  /\ bidding_history = <<>>
  /\ winning_bid = NoValue
  /\ winning_player = NoValue
  /\ winning_team = "none"
  /\ trump_suit = "none"
  /\ done = FALSE
  /\ info = "init"
  /\ main_reward = 0
  /\ totals = <<0, 0, 0, 0>>
  /\ passed_cards = <<>>
  /\ passed_back = <<>>
  /\ EngineIdle

\* A call that returns no passing or trick results.
NoRoundOutput ==
  /\ main_reward' = 0
  /\ totals' = <<0, 0, 0, 0>>
  /\ passed_cards' = <<>>
  /\ passed_back' = <<>>

\* ResetState without the assignment of line 63 (current_bid is kept).
ResetState_KeepsBid(g) ==
  /\ hands' = Deals[g]
  /\ phase' = "bidding"
  /\ current_bid' = current_bid
  /\ active' = [s \in Seats |-> TRUE]
  /\ current_turn' = 0
  /\ bidding_history' = <<>>

\* deal_hands(); init_bidding()
ResetState(g) ==
  /\ hands' = Deals[g]
  /\ phase' = "bidding"
  /\ current_bid' = OpeningBid
  /\ active' = [s \in Seats |-> TRUE]
  /\ current_turn' = 0
  /\ bidding_history' = <<>>

\* reset(), called by the user of the environment.
Reset ==
  \E g \in ShuffleKeys :
    /\ ResetState(g)
    /\ done' = FALSE
    /\ info' = "reset"
    /\ NoRoundOutput
    /\ UNCHANGED <<winning_bid, winning_player, winning_team, trump_suit>>
    /\ UNCHANGED engine

\* step(action) in the bidding phase (lines 104-152) when the seat whose
\* turn it is bids `bid` (0 = pass).
BiddingTurn(bid) ==
  LET hist == Append(bidding_history, <<current_turn, bid>>)
      act == ActiveAfter(active, current_turn, bid)
      cb == BidAfter(current_bid, bid)
      resolved == NumActive(act) = 1
      winner == FirstActive(act)
  IN /\ IF resolved
        THEN /\ winning_bid' = ForcedWinningBid
             /\ winning_player' = winner
             /\ winning_team' = TeamOf(winner)
             /\ trump_suit' = IF winner \in {0, 2}
                              THEN select_trump(hands[0])
                              ELSE select_trump(hands[winner])
        ELSE UNCHANGED <<winning_bid, winning_player, winning_team, trump_suit>>
     /\ IF AllPassed(hist)
        THEN /\ \E g \in ShuffleKeys : ResetState(g)
             /\ done' = TRUE
             /\ info' = "redeal"
        ELSE /\ hands' = hands
             /\ phase' = IF resolved
                         THEN (IF TeamOf(winner) = "ML" THEN "passing" ELSE "trick")
                         ELSE "bidding"
             /\ current_bid' = cb
             /\ active' = act
             /\ current_turn' = (current_turn + 1) % 4
             /\ bidding_history' = hist
             /\ done' = FALSE
             /\ info' = "bidding_history"
     /\ NoRoundOutput
     /\ UNCHANGED engine

\* step(action) in the bidding phase (lines 104-152), for an action of
\* `actions` and the randint sample n.
BiddingStep(actions, n) ==
  /\ phase = "bidding"
  /\ Len(bidding_history) < MaxHistory
  /\ \E action \in actions :
       \E bid \in TurnBids(action, n) : BiddingTurn(bid)

(***************************************************************************)
(* Passing (lines 154-177)                                                 *)
(***************************************************************************)
\* list(combinations(range(12), 3)): the 3-subsets of 0..11 as increasing
\* triples, in lexicographic order.
Triples == {t \in (0..11) \X (0..11) \X (0..11) : t[1] < t[2] /\ t[2] < t[3]}

Choose2(n) == (n * (n - 1)) \div 2
Choose3(n) == (n * (n - 1) * (n - 2)) \div 6

\* The number of triples before t in lexicographic order: those with a
\* smaller first index, those with the same first and a smaller second index,
\* those with the same first two and a smaller third index.
TripleRank(t) ==
  (Choose3(12) - Choose3(12 - t[1]))
    + (Choose2(11 - t[1]) - Choose2(12 - t[2]))
    + (t[3] - t[2] - 1)

NumCombinations == Cardinality(Triples)

\* self.combinations[k] (0-based k)
Combination(k) == CHOOSE t \in Triples : TripleRank(t) = k

\* Lines 156-159: the cards chosen from the sorted partner hand.
ChosenCards(partner, action) ==
  Let(Combination(action % NumCombinations), LAMBDA chosen_combo :
    Let(Sorted(partner), LAMBDA partner_sorted :
      [k \in 1..Len(chosen_combo) |-> partner_sorted[chosen_combo[k] + 1]]))

\* Exchange with the bidder keeping hands[0][2:] instead of hands[0][3:].
Exchange_KeepsOne(bidder, partner, passed) ==
  Let(SortByRank(bidder \o passed), LAMBDA bidder1 :
    LET passed_back_ == SubSeq(bidder1, 1, Min(3, Len(bidder1)))
    IN <<SubSeq(bidder1, 3, Len(bidder1)),
         RemoveAll(partner, passed) \o passed_back_,
         passed_back_>>)

\* Lines 160-166: <<hands[0], hands[2], passed_back>> after the exchange.
Exchange(bidder, partner, passed) ==
  Let(SortByRank(bidder \o passed), LAMBDA bidder1 :
    LET passed_back_ == SubSeq(bidder1, 1, Min(3, Len(bidder1)))
    IN <<SubSeq(bidder1, 4, Len(bidder1)),
         RemoveAll(partner, passed) \o passed_back_,
         passed_back_>>)

PassingStep(action) ==
  /\ passed_cards' = ChosenCards(hands[2], action)
  /\ \E ex \in {Exchange(hands[0], hands[2], passed_cards')} :
       /\ hands' = [s \in Seats |-> IF s = 0 THEN ex[1]
                                    ELSE IF s = 2 THEN ex[2] ELSE hands[s]]
       /\ passed_back' = ex[3]
  /\ phase' = "trick"
  /\ done' = FALSE
  /\ info' = "passed_cards"
  /\ main_reward' = 0
  /\ totals' = <<0, 0, 0, 0>>
  /\ UNCHANGED <<current_bid, active, current_turn, bidding_history,
                 winning_bid, winning_player, winning_team, trump_suit>>
  /\ UNCHANGED engine

\* Actions submitted in the passing phase: indices inside and outside 0..219.
PassActions == {0, 137, 219, 225, -1}

\* Every index of the 220 combinations, and the indices next to that range.
AllPassActions == (-2)..(NumCombinations + 1)

StepPassing ==
  /\ phase = "passing"
  /\ \E action \in PassActions : PassingStep(action)

StepPassingAll ==
  /\ phase = "passing"
  /\ \E action \in AllPassActions : PassingStep(action)

(***************************************************************************)
(* Trick (lines 179-201)                                                   *)
(***************************************************************************)
\* MainReward with the contract tested against opp_total.
MainReward_OppTotal(team, bid, t) ==
  IF team = "ML"
  THEN IF t[2] >= bid THEN (t[3] - t[4]) + bid ELSE -bid
  ELSE t[1]

\* Lines 182-188.
MainReward(team, bid, t) ==
  IF team = "ML"
  THEN IF t[1] >= bid THEN (t[3] - t[4]) + bid ELSE -bid
  ELSE t[1]

StepTrick ==
  /\ phase = "trick"
  /\ totals' = simulate_round(hands, winning_player, trump_suit)
  /\ main_reward' = MainReward(winning_team, winning_bid, totals')
  /\ done' = TRUE
  /\ info' = "ml_total"
  /\ passed_cards' = <<>>
  /\ passed_back' = <<>>
  /\ UNCHANGED <<hands, phase, current_bid, active, current_turn, bidding_history,
                 winning_bid, winning_player, winning_team, trump_suit>>
  /\ UNCHANGED engine

StepBidding == BiddingStep(BidActions, MaxRaise)

\* Bidding in which seat 0 passes or opens and the other seats only pass.
StepBiddingPassOnly == BiddingStep({0, 25}, 0)

\* The environment under the sampled inputs.
Next == Reset \/ StepBidding \/ StepPassing \/ StepTrick

Spec == Init /\ [][Next]_vars

\* Rounds whose bidding is the shortest possible, with every passing index.
NextPass == StepBiddingPassOnly \/ StepPassingAll \/ StepTrick

SpecPass == Init /\ [][NextPass]_vars

(***************************************************************************)
(* simulate_round, one loop iteration at a time                            *)
(***************************************************************************)
\* The attributes of the environment and the outputs of its last call.
env == <<hands, phase, current_bid, active, current_turn, bidding_history,
         winning_bid, winning_player, winning_team, trump_suit,
         done, info, main_reward, totals, passed_cards, passed_back>>

\* Lines 324-331: the locals of simulate_round before the first trick.
\* sim.plays logs every (trick, seat, card) appended to trick_cards.
SimStart(hs, wp) ==
  [pc |-> "turn",
   st |-> [hand |-> hs, leader |-> wp, led |-> "none", trick_cards |-> <<>>,
           ML |-> 0, OPP |-> 0],
   trick |-> 0, i |-> 0, plays |-> <<>>]

\* The trick step (line 181) enters simulate_round.
RoundStart ==
  /\ phase = "trick"
  /\ sim.pc = "idle"
  /\ sim' = SimStart(hands, winning_player)
  /\ UNCHANGED <<env, playout, meld, oracle>>

\* Lines 336-374: iteration i of the inner loop of the current trick.
RoundTurn ==
  /\ sim.pc = "turn"
  /\ \E nxt \in {PlayTurn(sim.st, sim.i, winning_player, trump_suit)} :
       sim' = [sim EXCEPT
                 !.st = nxt,
                 !.i = sim.i + 1,
                 !.pc = IF sim.i = 3 THEN "resolve" ELSE "turn",
                 !.plays = IF Len(nxt.trick_cards) > Len(sim.st.trick_cards)
                           THEN Append(sim.plays,
                                       <<sim.trick>> \o nxt.trick_cards[Len(nxt.trick_cards)])
                           ELSE sim.plays]
  /\ UNCHANGED <<env, playout, meld, oracle>>

\* Lines 375-386: the trick is resolved; the next iteration of the outer loop.
\* With no play in the trick, max() of line 380 is given an empty list and
\* raises ValueError.
RoundResolve ==
  /\ sim.pc = "resolve"
  /\ sim' = IF sim.st.trick_cards = <<>>
            THEN [sim EXCEPT !.pc = "error"]
            ELSE [sim EXCEPT
                    !.st = Resolve(sim.st, sim.trick, trump_suit),
                    !.trick = sim.trick + 1,
                    !.i = 0,
                    !.pc = IF sim.trick + 1 = NumTricks THEN "score" ELSE "turn"]
  /\ UNCHANGED <<env, playout, meld, oracle>>

\* Lines 387-393, then lines 182-201 of the trick step.
RoundEnd ==
  /\ sim.pc = "score"
  /\ totals' = <<evaluate(hands[0]) + evaluate(hands[2]) + sim.st.ML,
                  evaluate(hands[1]) + evaluate(hands[3]) + sim.st.OPP,
                  sim.st.ML, sim.st.OPP>>
  /\ main_reward' = MainReward(winning_team, winning_bid, totals')
  /\ done' = TRUE
  /\ info' = "ml_total"
  /\ passed_cards' = <<>>
  /\ passed_back' = <<>>
  /\ sim' = [sim EXCEPT !.pc = "done"]
  /\ UNCHANGED <<hands, phase, current_bid, active, current_turn, bidding_history,
                 winning_bid, winning_player, winning_team, trump_suit>>
  /\ UNCHANGED <<playout, meld, oracle>>

\* The environment with the trick step taken one loop iteration at a time.
NextRound ==
  StepBidding \/ StepPassing \/ RoundStart \/ RoundTurn \/ RoundResolve \/ RoundEnd

SpecRound == Init /\ [][NextRound]_vars

(***************************************************************************)
(* The lookahead playout (lines 239-321)                                   *)
(***************************************************************************)
\* Iterations of the playout loop (line 262) that are explored.
MaxPlayoutMoves == 4

\* move = None (line 265).
NoCard == <<>>

\* _get_current_state (lines 244-251).
get_current_state(hs, wp, trump) ==
  [hands |-> hs, leader |-> wp, current_trick |-> <<>>, trick_number |-> 0,
   trump |-> trump]

\* _is_terminal (lines 279-280).
is_terminal(state) == state.trick_number = 12

\* _get_legal_moves (lines 282-297): the list random.choice draws from.
get_legal_moves(state, player) ==
  LET hand == state.hands[player]
      led_suit == Suit(state.current_trick[1][2])
      candidates == OfSuit(hand, led_suit)
      current_cards == OfSuit(PlayedCards(state.current_trick), led_suit)
      forced == Beating(candidates, MaxByRank(current_cards))
  IN IF state.current_trick = <<>> THEN hand
     ELSE IF candidates # <<>>
          THEN IF current_cards # <<>>
               THEN (IF forced # <<>> THEN forced ELSE candidates)
               ELSE candidates
          ELSE hand

\* Lines 300-303: the card, unless None, goes from the hand to the trick.
MoveCard(state, player, card) ==
  IF card = NoCard THEN state
  ELSE [state EXCEPT
          !.hands = [p \in Seats |-> IF p = player
                                     THEN Remove(state.hands[p], card)
                                     ELSE state.hands[p]],
          !.current_trick = Append(state.current_trick, <<player, card>>)]

\* Lines 306-313: the seat that wins a complete trick.
MoveWinner(trick, trump) == WinningPlay(trick, Suit(trick[1][2]), trump)[1]

\* _simulate_move (lines 299-321): <<new_state, score>>.
simulate_move(state, player, card) ==
  Let(MoveCard(state, player, card), LAMBDA new_state :
    IF Len(new_state.current_trick) = 4
    THEN Let(MoveWinner(new_state.current_trick, new_state.trump), LAMBDA winner :
           LET trick_points == TrickPoints(new_state.current_trick, state.trick_number)
           IN <<[new_state EXCEPT !.leader = winner,
                                  !.current_trick = <<>>,
                                  !.trick_number = state.trick_number + 1],
                IF winner \in {0, 2} THEN trick_points ELSE -trick_points>>)
    ELSE <<new_state, 0>>)

\* Line 263: the seat to move.
PlayoutPlayer(state) == (state.leader + Len(state.current_trick)) % 4

\* Lines 264-265: the outcomes of random.choice(legal_moves), or None.
PlayoutMoves(state) ==
  LET legal_moves == get_legal_moves(state, PlayoutPlayer(state))
  IN IF legal_moves = <<>> THEN {NoCard}
     ELSE {legal_moves[k] : k \in 1..Len(legal_moves)}

\* _simulate_random_playout is called on `state` (lines 260-261).
\* playout.iterations counts the iterations of its loop.
PlayoutBegin(state) ==
  [pc |-> "run", state |-> state, total_score |-> 0, iterations |-> 0]

\* The trick step calls compute_optimal_value (line 180), which starts a
\* playout from the current state (lines 241-242, 256).
PlayoutStart ==
  /\ phase = "trick"
  /\ playout.pc = "idle"
  /\ playout' = PlayoutBegin(get_current_state(hands, winning_player, trump_suit))
  /\ UNCHANGED <<env, sim, meld, oracle>>

\* One iteration of the loop of lines 262-267; the loop is left (line 268)
\* once the state is terminal.
PlayoutMove ==
  /\ playout.pc = "run"
  /\ ~is_terminal(playout.state)
  /\ playout.iterations < MaxPlayoutMoves
  /\ \E move \in PlayoutMoves(playout.state) :
       \E r \in {simulate_move(playout.state, PlayoutPlayer(playout.state), move)} :
         playout' = [pc |-> IF is_terminal(r[1]) THEN "done" ELSE "run",
                     state |-> r[1],
                     total_score |-> playout.total_score + r[2],
                     iterations |-> playout.iterations + 1]
  /\ UNCHANGED <<env, sim, meld, oracle>>

\* Bidding in which seat 0 passes or opens and the other seats pass or raise.
StepBiddingOpen == BiddingStep({0, 25}, MaxRaise)

\* The passing step with the first combination.
StepPassingFirst ==
  /\ phase = "passing"
  /\ PassingStep(0)

\* The environment up to the trick step, and one playout of its lookahead.
NextPlayout == StepBiddingOpen \/ StepPassingFirst \/ PlayoutStart \/ PlayoutMove

SpecPlayout == Init /\ [][NextPlayout]_vars

(***************************************************************************)
(* The trick step: the lookahead (line 180), then simulate_round (line 181) *)
(***************************************************************************)
\* compute_optimal_value is entered before simulate_round.
LookaheadStart ==
  /\ sim = Idle
  /\ PlayoutStart

\* An iteration of the playout; simulate_round has not been entered yet.
LookaheadMove ==
  /\ sim = Idle
  /\ PlayoutMove

\* Line 181: the lookahead has returned, its locals are gone, and
\* simulate_round is entered.  The iterations of the lookahead beyond the
\* explored ones are not followed.
RoundAfterLookahead ==
  /\ phase = "trick"
  /\ sim = Idle
  /\ \/ playout.pc = "done"
     \/ playout.pc = "run" /\ playout.iterations = MaxPlayoutMoves
  /\ playout' = Idle
  /\ sim' = SimStart(hands, winning_player)
  /\ UNCHANGED <<env, meld, oracle>>

NextTricks ==
  \/ StepBiddingOpen
  \/ StepPassingFirst
  \/ LookaheadStart
  \/ LookaheadMove
  \/ RoundAfterLookahead
  \/ RoundTurn
  \/ RoundResolve
  \/ RoundEnd

SpecTricks == Init /\ [][NextTricks]_vars

(***************************************************************************)
(* The passing step with compute_optimal_pass, one trial at a time         *)
(***************************************************************************)
\* best_value = -float('inf') (line 210): below every round total, which is
\* a sum of meld and trick points and never negative.
NegInf == -1

\* best_combo = None (line 211).
NoCombo == -1

\* The sum of lines 140, 168-169 is over booleans; abs() of line 170.
Abs(x) == IF x < 0 THEN -x ELSE x

\* Lines 216-226: <<bidder_after, partner_after>> of the trial of combo k.
TrialHands(bidder, original_partner, k) ==
  Let(Exchange(bidder, original_partner, ChosenCards(original_partner, k)),
      LAMBDA ex : <<ex[1], ex[2]>>)

\* self.hands with hands[0] and hands[2] replaced.
WithHands(hs, bidder, partner) ==
  [s \in Seats |-> IF s = 0 THEN bidder ELSE IF s = 2 THEN partner ELSE hs[s]]

\* Lines 156-168, 210-212: the exchange chosen by `action`, then
\* compute_optimal_pass is entered.  oracle.entry keeps self.hands as they
\* were when step was called.
PassingExchange(action) ==
  /\ oracle = Idle
  /\ passed_cards' = ChosenCards(hands[2], action)
  /\ \E ex \in {Exchange(hands[0], hands[2], passed_cards')} :
       /\ hands' = WithHands(hands, ex[1], ex[2])
       /\ passed_back' = ex[3]
       /\ oracle' = [pc |-> "trial", k |-> 0,
                     best_value |-> NegInf, best_combo |-> NoCombo,
                     original_partner |-> ex[2], saved |-> <<>>,
                     entry |-> hands]
  /\ UNCHANGED <<phase, current_bid, active, current_turn, bidding_history,
                 winning_bid, winning_player, winning_team, trump_suit,
                 done, info, main_reward, totals>>
  /\ UNCHANGED <<sim, playout, meld>>

\* Lines 213-230: the trial of combo k up to the assignment of the trial
\* hands to self.hands.  A combo that reaches beyond the partner hand is
\* skipped (lines 214-215).
OracleTrial ==
  /\ oracle.pc = "trial"
  /\ IF Combination(oracle.k)[3] >= Len(oracle.original_partner)
     THEN /\ oracle' = [oracle EXCEPT
                          !.k = oracle.k + 1,
                          !.pc = IF oracle.k + 1 = NumCombinations
                                 THEN "return" ELSE "trial"]
          /\ hands' = hands
     ELSE \E t \in {TrialHands(hands[0], oracle.original_partner, oracle.k)} :
            /\ oracle' = [oracle EXCEPT !.pc = "simulate",
                                        !.saved = <<hands[0], hands[2]>>]
            /\ hands' = WithHands(hands, t[1], t[2])
  /\ UNCHANGED <<phase, current_bid, active, current_turn, bidding_history,
                 winning_bid, winning_player, winning_team, trump_suit,
                 done, info, main_reward, totals, passed_cards, passed_back>>
  /\ UNCHANGED <<sim, playout, meld>>

\* BestAfter with `>=` for the `>` of line 234: the last best combo is kept.
BestAfter_Last(best_value, best_combo, ml_total, k) ==
  IF ml_total >= best_value THEN <<ml_total, k>> ELSE <<best_value, best_combo>>

\* Lines 234-236: <<best_value, best_combo>> after the trial of combo k.
BestAfter(best_value, best_combo, ml_total, k) ==
  IF ml_total > best_value THEN <<ml_total, k>> ELSE <<best_value, best_combo>>

\* RestoredHands without the assignments of lines 232-233: the trial hands
\* stay in self.hands.
RestoredHands_Kept(hs, saved) == hs

\* Lines 232-233: self.hands[0] = saved_bidder; self.hands[2] = saved_partner.
RestoredHands(hs, saved) == WithHands(hs, saved[1], saved[2])

\* Lines 231-236: the trial hands are played, self.hands is restored and
\* the best total so far is updated.
OracleSimulate ==
  /\ oracle.pc = "simulate"
  /\ \E best \in {BestAfter(oracle.best_value, oracle.best_combo,
                             simulate_round(hands, winning_player, trump_suit)[1],
                             oracle.k)} :
       oracle' = [oracle EXCEPT
                    !.best_value = best[1],
                    !.best_combo = best[2],
                    !.saved = <<>>,
                    !.k = oracle.k + 1,
                    !.pc = IF oracle.k + 1 = NumCombinations
                           THEN "return" ELSE "trial"]
  /\ hands' = RestoredHands(hands, oracle.saved)
  /\ UNCHANGED <<phase, current_bid, active, current_turn, bidding_history,
                 winning_bid, winning_player, winning_team, trump_suit,
                 done, info, main_reward, totals, passed_cards, passed_back>>
  /\ UNCHANGED <<sim, playout, meld>>

\* Lines 237, 168-177: compute_optimal_pass returns, the round is simulated
\* on the hands of the agent's exchange and the step returns.
PassingReturn ==
  /\ oracle.pc = "return"
  /\ \E agent_ml_total \in {simulate_round(hands, winning_player, trump_suit)[1]} :
       oracle' = [pc |-> "done",
                  optimal_combo |-> oracle.best_combo,
                  optimal_value |-> oracle.best_value,
                  agent_ml_total |-> agent_ml_total,
                  pass_reward |-> -Abs(oracle.best_value - agent_ml_total),
                  entry |-> oracle.entry]
  /\ phase' = "trick"
  /\ done' = FALSE
  /\ info' = "passed_cards"
  /\ UNCHANGED <<hands, current_bid, active, current_turn, bidding_history,
                 winning_bid, winning_player, winning_team, trump_suit,
                 main_reward, totals, passed_cards, passed_back>>
  /\ UNCHANGED <<sim, playout, meld>>

\* Actions submitted to the passing step whose oracle is followed.
OracleActions == {0, 137, 219}

StepPassingOracle ==
  /\ phase = "passing"
  /\ \E action \in OracleActions : PassingExchange(action)

\* Rounds with the shortest bidding, and the passing step in full.
NextOracle ==
  \/ StepBiddingPassOnly
  \/ StepPassingOracle
  \/ OracleTrial
  \/ OracleSimulate
  \/ PassingReturn

SpecOracle == Init /\ [][NextOracle]_vars

\* Rounds with the shortest bidding in which every evaluator call of the
\* passing step and of the trick step is followed: compute_optimal_pass
\* (line 168), compute_optimal_value (line 180) and simulate_round (line 181).
NextEvaluators ==
  \/ StepBiddingPassOnly
  \/ StepPassingOracle
  \/ OracleTrial
  \/ OracleSimulate
  \/ PassingReturn
  \/ LookaheadStart
  \/ LookaheadMove
  \/ RoundAfterLookahead
  \/ RoundTurn
  \/ RoundResolve
  \/ RoundEnd

SpecEvaluators == Init /\ [][NextEvaluators]_vars

(***************************************************************************)
(* The bidding phase followed to its end                                   *)
(***************************************************************************)
\* Steps of one bidding phase that are followed.
MaxBidSteps == 21

\* Outcomes of random.randint(self.current_bid + 1, 50) that are followed.
SampledRaises == {25, 30, 35, 40, 45, 49, 50}

\* Lines 105-114, 123-132: the bids the seat whose turn it is may make, for
\* every sampled action of seat 0 and every sampled outcome of the draws.
RunBids ==
  IF current_turn = 0
  THEN {MLBid(action, current_bid) : action \in BidActions}
  ELSE {bid \in NonMLBids(current_turn, active, current_bid, 50 - OpeningBid) :
          bid = 0 \/ bid \in SampledRaises}

\* step(action) in the bidding phase.
BiddingRun ==
  /\ phase = "bidding"
  /\ Len(bidding_history) < MaxBidSteps
  /\ \E bid \in RunBids : BiddingTurn(bid)

\* The user of the environment keeps calling step until the round is over.
SpecBidding == Init /\ [][BiddingRun]_vars /\ WF_vars(BiddingRun)

(***************************************************************************)
(* evaluate on its own (hand_evaluator.py)                                 *)
(***************************************************************************)
\* Cards are added to an evaluated hand while fewer than this were added.
MaxAdded == 1

\* The cards of a set as a list, in deck order.
AsHand(cards) == SelectSeq(DeckBase, LAMBDA c : c \in cards)

\* The hand holding exactly the cards a meld requires, and that hand without
\* its last card.
MeldHand(m) == Repeat(AsHand(m.cards), m.occurrences)
ButLast(hand) == SubSeq(hand, 1, Len(hand) - 1)

\* The 12-card hand of the eight aces and four nines.
DoubleAcesHand == Repeat(AsHand(OfValue("A")), 2) \o AsHand(OfValue("9"))

\* Hands given to evaluate: the dealt hands (as simulate_round passes them,
\* lines 387-388) and their first 11 cards, the hand of each configured meld
\* complete and one card short, the double-aces hand, the eight nines and the
\* empty hand.
MeldInputs ==
  {hands[s] : s \in Seats} \cup {ButLast(hands[s]) : s \in Seats}
    \cup {MeldHand(meldHands[k]) : k \in 1..Len(meldHands)}
    \cup {ButLast(MeldHand(meldHands[k])) : k \in 1..Len(meldHands)}
    \cup {DoubleAcesHand, Repeat(AsHand(OfValue("9")), 2), <<>>}

\* evaluate(hand) is called.
EvaluateHand ==
  /\ meld.pc = "idle"
  /\ \E h \in MeldInputs :
       meld' = [pc |-> "evaluated", hand |-> h, points |-> evaluate(h), added |-> 0]
  /\ UNCHANGED <<env, sim, playout, oracle>>

\* evaluate is called on the last hand with one more card of the deck.
EvaluateMore ==
  /\ meld.pc = "evaluated"
  /\ meld.added < MaxAdded
  /\ \E k \in 1..Len(DeckBase) :
       /\ Count(meld.hand, DeckBase[k]) < occurrences
       /\ \E h \in {Append(meld.hand, DeckBase[k])} :
            meld' = [pc |-> "evaluated", hand |-> h, points |-> evaluate(h),
                     added |-> meld.added + 1]
  /\ UNCHANGED <<env, sim, playout, oracle>>

NextMeld == EvaluateHand \/ EvaluateMore

SpecMeld == Init /\ [][NextMeld]_vars

(***************************************************************************)
(* The trick engine on hands with a card missing                           *)
(***************************************************************************)
\* The seats whose hand is a card short: one seat, or all four.
ShortSeats == {{s} : s \in Seats} \cup {Seats}

\* The environment at the trick step after the last card of the hands of the
\* seats K was lost (a card-count mismatch; self.hands is a public attribute
\* and no step of the environment checks it).
InitShort ==
  /\ \E g \in ShuffleKeys : \E K \in ShortSeats :
       hands = [s \in Seats |-> IF s \in K THEN ButLast(Deals[g][s]) ELSE Deals[g][s]]
  /\ phase = "trick"
  /\ current_bid = OpeningBid
  /\ \E wp \in Seats :
       /\ winning_player = wp
       /\ active = [s \in Seats |-> s = wp]
       /\ winning_team = TeamOf(wp)
       /\ trump_suit = IF wp \in {0, 2} THEN select_trump(hands[0])
                       ELSE select_trump(hands[wp])
  /\ winning_bid = ForcedWinningBid
  /\ current_turn = 0
  /\ bidding_history = <<>>
  /\ done = FALSE
  /\ info = "bidding_history"
  /\ main_reward = 0
  /\ totals = <<0, 0, 0, 0>>
  /\ passed_cards = <<>>
  /\ passed_back = <<>>
  /\ EngineIdle

\* The cards a 12-card hand still holds in the last trick when its cards are
\* played in order: its 12th card, if it has one.
LastCards(hand) == SubSeq(hand, NumTricks, Len(hand))

\* _simulate_random_playout is called on the state of the last trick.
PlayoutStartLast ==
  /\ phase = "trick"
  /\ playout.pc = "idle"
  /\ playout' = PlayoutBegin(
       [hands |-> [s \in Seats |-> LastCards(hands[s])],
        leader |-> winning_player,
        current_trick |-> <<>>,
        trick_number |-> LastTrick,
        trump |-> trump_suit])
  /\ UNCHANGED <<env, sim, meld, oracle>>

NextShort ==
  RoundStart \/ RoundTurn \/ RoundResolve \/ RoundEnd \/ PlayoutStartLast \/ PlayoutMove

SpecShort == InitShort /\ [][NextShort]_vars

(***************************************************************************)
(* Properties                                                              *)
(***************************************************************************)
AllCards == {DeckBase[i] : i \in 1..Len(DeckBase)}

HeldByAll(c) == Count(hands[0], c) + Count(hands[1], c) + Count(hands[2], c) + Count(hands[3], c)

Bids == [i \in 1..Len(bidding_history) |-> bidding_history[i][2]]
Bidders == [i \in 1..Len(bidding_history) |-> bidding_history[i][1]]

\* C1: after reset and after every step the four hands together hold each of
\* the 24 distinct cards exactly twice, 48 cards in all.
DeckConserved ==
  /\ \A c \in AllCards : HeldByAll(c) = occurrences
  /\ \A s \in Seats : \A i \in 1..Len(hands[s]) : hands[s][i] \in AllCards
  /\ Len(hands[0]) + Len(hands[1]) + Len(hands[2]) + Len(hands[3]) = 48

\* A passing step has just exchanged cards between seats 2 and 0.
DeckConservedWitness ==
  /\ info = "passed_cards"
  /\ phase = "trick"
  /\ passed_cards # passed_back

\* C2 (as claimed): no accepted bid and no value of current_bid exceeds 50.
BidCeiling ==
  /\ current_bid <= 50
  /\ \A i \in 1..Len(Bids) : Bids[i] <= 50

\* C3: every accepted non-pass bid is strictly greater than current_bid was
\* before it: the non-zero bids of bidding_history increase strictly from
\* above the opening bid, and current_bid is the last of them (the opening
\* bid when there is none), so it never decreases during bidding.
BidsStrictlyIncrease ==
  LET raised == {i \in 1..Len(Bids) : Bids[i] # 0}
  IN /\ \A i \in raised : Bids[i] > OpeningBid
     /\ \A i \in raised : \A j \in raised : i < j => Bids[i] < Bids[j]
     /\ \A i \in raised : Bids[i] <= current_bid
     /\ raised = {} => current_bid = OpeningBid
     /\ raised # {} => \E i \in raised : Bids[i] = current_bid

\* Seat 0 has raised over an earlier raise of a non-ML seat.
BidsStrictlyIncreaseWitness ==
  \E i \in 1..Len(Bids) : \E j \in 1..Len(Bids) :
    /\ i < j
    /\ Bids[i] # 0 /\ Bidders[i] # 0
    /\ Bids[j] # 0 /\ Bidders[j] = 0

\* C4 (as claimed): the floor holds for every seat, so no accepted non-pass
\* bid is below 30 and current_bid is the opening 20 or at least 30.
FloorForEverySeat ==
  /\ current_bid = OpeningBid \/ current_bid >= 30
  /\ \A i \in 1..Len(Bids) : Bids[i] = 0 \/ Bids[i] >= 30

\* C4 (amended): the floor holds for seat 0: every non-pass bid accepted from
\* seat 0 is at least 30.
FloorForSeat0 ==
  \A i \in 1..Len(Bids) : Bidders[i] = 0 => (Bids[i] = 0 \/ Bids[i] >= 30)

\* Seat 0 submitted an action below 30 (BidActions holds no 30) and the bid
\* recorded for it is the floor.
FloorForSeat0Witness ==
  \E i \in 1..Len(Bids) : Bidders[i] = 0 /\ Bids[i] = 30

\* C5 (as claimed): while every recorded bid of the round is a pass the round
\* stays in bidding: it never reaches passing or trick.
AllPassNeverLeavesBidding ==
  (bidding_history # <<>> /\ \A i \in 1..Len(Bids) : Bids[i] = 0)
    => phase = "bidding"

\* C6 (as claimed): a seat that has passed records no later non-pass bid.
InactiveSeatNeverBids ==
  \A i \in 1..Len(Bids) : \A j \in 1..Len(Bids) :
    (i < j /\ Bids[i] = 0 /\ Bidders[j] = Bidders[i]) => Bids[j] = 0

\* Seat s's partner is active and both of its opponents are inactive.
OnlyPartnerLeft(s) ==
  /\ active[(s + 2) % 4]
  /\ ~active[(s + 1) % 4]
  /\ ~active[(s + 3) % 4]

\* C7 (as claimed): a bidding step taken when only the partner of the seat
\* to act is left against it records a pass for that seat.
PairingRuleEverySeat ==
  [][(/\ phase = "bidding"
      /\ OnlyPartnerLeft(current_turn)
      /\ Len(bidding_history') = Len(bidding_history) + 1)
       => bidding_history'[Len(bidding_history')][2] = 0]_vars

\* C8 (as claimed): once bidding has ended with a winner, the recorded
\* winning bid is current_bid.
WinningBidIsCurrentBid ==
  phase \in {"passing", "trick"} => winning_bid = current_bid

\* C8 (amended): once bidding has ended with a winner, the recorded winning
\* bid is 20 whatever current_bid is, exactly one seat is active, it is the
\* recorded winning seat, and the recorded partnership is that seat's.
WinnerRecorded ==
  phase \in {"passing", "trick"} =>
    /\ winning_bid = 20
    /\ NumActive(active) = 1
    /\ winning_player \in Seats
    /\ active[winning_player]
    /\ winning_team = (IF winning_player \in {0, 2} THEN "ML" ELSE "OPP")

\* Bidding ended with a winner after the bid was raised above the opening.
WinnerRecordedWitness ==
  /\ phase \in {"passing", "trick"}
  /\ current_bid > OpeningBid
  /\ winning_player \in {1, 3}

\* C9: the passing step takes 3 cards from hands[2] (the ML partner) to
\* hands[0] (the ML bidder) and 3 cards back; both hands hold 12 cards
\* afterwards and together the same cards as before; the other hands are
\* untouched.
PassingPreservesUnion ==
  [][(phase = "passing" /\ phase' = "trick") =>
       /\ Len(passed_cards') = 3
       /\ Len(passed_back') = 3
       /\ Len(hands'[0]) = 12
       /\ Len(hands'[2]) = 12
       /\ \A c \in AllCards :
            /\ Count(hands'[0], c) + Count(hands'[2], c)
                 = Count(hands[0], c) + Count(hands[2], c)
            /\ Count(hands'[2], c)
                 = Count(hands[2], c) - Count(passed_cards', c) + Count(passed_back', c)
            /\ Count(hands'[0], c)
                 = Count(hands[0], c) + Count(passed_cards', c) - Count(passed_back', c)
       /\ hands'[1] = hands[1]
       /\ hands'[3] = hands[3]]_vars

\* A passing step has run and the cards returned are not the cards passed.
PassingPreservesUnionWitness ==
  /\ info = "passed_cards"
  /\ Len(passed_cards) = 3
  /\ \E c \in AllCards : Count(passed_cards, c) # Count(passed_back, c)

\* The round total of the partnership that holds the contract.
ContractTotal == IF winning_team = "ML" THEN totals[1] ELSE totals[2]

\* C10 (as claimed): whichever partnership holds the contract, the primary
\* reward of the trick step is the negated winning bid exactly when that
\* partnership's round total is below the winning bid.
ContractDecidesRewardEitherSide ==
  info = "ml_total" =>
    (main_reward = -winning_bid <=> ContractTotal < winning_bid)

\* C10 (amended): when the ML partnership holds the contract, its total is
\* the meld of hands 0 and 2 plus its trick points, the primary reward is
\* the negated winning bid exactly when that total is below the winning bid
\* and the trick-point differential plus the bid otherwise; when the other
\* partnership holds it the primary reward is ml_total.
ContractDecidesRewardML ==
  info = "ml_total" =>
    /\ totals[1] = evaluate(hands[0]) + evaluate(hands[2]) + totals[3]
    /\ winning_team = "ML" =>
         /\ main_reward = -winning_bid <=> totals[1] < winning_bid
         /\ totals[1] >= winning_bid =>
              main_reward = (totals[3] - totals[4]) + winning_bid
    /\ winning_team = "OPP" => main_reward = totals[1]

\* A trick step has scored a failed ML contract.
ContractDecidesRewardMLWitness ==
  /\ info = "ml_total"
  /\ winning_team = "ML"
  /\ totals[1] < winning_bid
  /\ main_reward = -winning_bid

\* The plays of sim.plays made by seat s, and those of trick t.
PlaysOf(s) == {k \in 1..Len(sim.plays) : sim.plays[k][2] = s}
PlaysIn(t) == {k \in 1..Len(sim.plays) : sim.plays[k][1] = t}

\* C11: a round resolved from four 12-card hands has 12 tricks of exactly 4
\* plays: in every trick each seat plays exactly one card, taken from its own
\* hand, so that after t tricks every hand holds 12 - t cards; at the end 48
\* plays are logged, the hands are empty and every dealt card has been
\* played exactly once.
RoundPlaysEveryCardOnce ==
  sim.pc # "idle" =>
    /\ Len(sim.plays) = 4 * sim.trick + Len(sim.st.trick_cards)
    /\ sim.pc = "turn" => Len(sim.st.trick_cards) = sim.i
    /\ sim.pc = "resolve" => Len(sim.st.trick_cards) = 4
    /\ \A t \in 0..(sim.trick - 1) : \A s \in Seats :
         Cardinality(PlaysIn(t) \cap PlaysOf(s)) = 1
    /\ \A s \in Seats :
         /\ Cardinality(PlaysIn(sim.trick) \cap PlaysOf(s)) <= 1
         /\ Len(sim.st.hand[s]) = 12 - Cardinality(PlaysOf(s))
         /\ \A c \in AllCards :
              Cardinality({k \in PlaysOf(s) : sim.plays[k][3] = c})
                + Count(sim.st.hand[s], c) = Count(hands[s], c)
    /\ sim.pc \in {"score", "done"} =>
         /\ sim.trick = 12
         /\ Len(sim.plays) = 48
         /\ \A s \in Seats : sim.st.hand[s] = <<>>
         /\ \A c \in AllCards :
              Cardinality({k \in 1..Len(sim.plays) : sim.plays[k][3] = c}) = occurrences

\* A round won by the ML partnership (so played from hands changed by a
\* passing step) has been played to its end.
RoundPlaysEveryCardOnceWitness ==
  /\ sim.pc = "done"
  /\ Len(sim.plays) = 48
  /\ winning_team = "ML"

\* The seat whose turn it is in the stepped round, and its hand.
Actor == (sim.st.leader + sim.i) % 4
ActorHand == sim.st.hand[Actor]

\* The cards of the hand, and the cards already in the trick, of suit s.
HeldOf(s) == {ActorHand[k] : k \in {j \in 1..Len(ActorHand) : Suit(ActorHand[j]) = s}}
InTrickOf(s) ==
  {sim.st.trick_cards[k][2] :
     k \in {j \in 1..Len(sim.st.trick_cards) : Suit(sim.st.trick_cards[j][2]) = s}}

\* The greatest rank among a non-empty set of cards.
BestRank(cards) == CHOOSE r \in 0..5 :
  /\ \E c \in cards : card_rank(c) = r
  /\ \A c \in cards : card_rank(c) <= r

\* A turn of the stepped round by a seat that follows the lead.
FollowTurn ==
  /\ sim.pc = "turn"
  /\ sim.st.led # "none"
  /\ Len(sim'.plays) = Len(sim.plays) + 1

\* The card played by the turn just taken.
PlayedCard == sim'.plays[Len(sim'.plays)][3]

\* C12: a following seat that holds led-suit cards, when no trump is in the
\* trick, the led suit is not trump and one of its led-suit cards ranks above
\* the best led-suit card C of the trick, plays a led-suit card that beats C
\* and no held led-suit card that beats C ranks below the card played.
ForcedOvertake ==
  [][(/\ FollowTurn
      /\ sim.st.led # trump_suit
      /\ InTrickOf(trump_suit) = {}
      /\ \E c \in HeldOf(sim.st.led) : card_rank(c) > BestRank(InTrickOf(sim.st.led)))
       => /\ PlayedCard \in HeldOf(sim.st.led)
          /\ card_rank(PlayedCard) > BestRank(InTrickOf(sim.st.led))
          /\ \A c \in HeldOf(sim.st.led) :
               card_rank(c) > BestRank(InTrickOf(sim.st.led))
                 => card_rank(PlayedCard) <= card_rank(c)]_vars

\* The last play of the current trick, the plays before it, and who made it.
LastPlay == sim.st.trick_cards[Len(sim.st.trick_cards)]
EarlierCards ==
  {sim.st.trick_cards[k][2] : k \in 1..(Len(sim.st.trick_cards) - 1)}

\* A follower has just overtaken the best led-suit card of a trumpless trick
\* while it still holds a higher card of the led suit.
ForcedOvertakeWitness ==
  /\ sim.pc \in {"turn", "resolve"}
  /\ Len(sim.st.trick_cards) >= 2
  /\ sim.st.led # trump_suit
  /\ \A c \in EarlierCards \cup {LastPlay[2]} : Suit(c) # trump_suit
  /\ Suit(LastPlay[2]) = sim.st.led
  /\ card_rank(LastPlay[2]) >
       BestRank({c \in EarlierCards : Suit(c) = sim.st.led})
  /\ \E k \in 1..Len(sim.st.hand[LastPlay[1]]) :
       /\ Suit(sim.st.hand[LastPlay[1]][k]) = sim.st.led
       /\ card_rank(sim.st.hand[LastPlay[1]][k]) > card_rank(LastPlay[2])

\* C18: every play of a following seat in simulate_round is legal: holding
\* the led suit it plays the led suit; void in the led suit and holding trump
\* it plays a trump, and when a trump is already in the trick and it holds a
\* higher trump, the trump played beats the best trump of the trick and is
\* the lowest held trump that does; it plays a card of another suit only
\* when it holds neither the led suit nor trump.
FollowerLegal ==
  [][FollowTurn =>
       /\ HeldOf(sim.st.led) # {} => Suit(PlayedCard) = sim.st.led
       /\ (HeldOf(sim.st.led) = {} /\ HeldOf(trump_suit) # {})
            => /\ Suit(PlayedCard) = trump_suit
               /\ (/\ InTrickOf(trump_suit) # {}
                   /\ \E c \in HeldOf(trump_suit) :
                        card_rank(c) > BestRank(InTrickOf(trump_suit)))
                    => /\ card_rank(PlayedCard) > BestRank(InTrickOf(trump_suit))
                       /\ \A c \in HeldOf(trump_suit) :
                            card_rank(c) > BestRank(InTrickOf(trump_suit))
                              => card_rank(PlayedCard) <= card_rank(c)
       /\ Suit(PlayedCard) \notin {sim.st.led, trump_suit}
            => HeldOf(sim.st.led) \cup HeldOf(trump_suit) = {}]_vars

\* A seat void in the led suit has just overtrumped: a trump was already in
\* the trick, the seat played a higher trump and still holds a trump above
\* the one it played.
FollowerLegalWitness ==
  /\ sim.pc \in {"turn", "resolve"}
  /\ Len(sim.st.trick_cards) >= 2
  /\ sim.st.led # trump_suit
  /\ \A k \in 1..Len(sim.st.hand[LastPlay[1]]) :
       Suit(sim.st.hand[LastPlay[1]][k]) # sim.st.led
  /\ Suit(LastPlay[2]) = trump_suit
  /\ \E c \in EarlierCards : Suit(c) = trump_suit
  /\ card_rank(LastPlay[2]) >
       BestRank({c \in EarlierCards : Suit(c) = trump_suit})
  /\ \E k \in 1..Len(sim.st.hand[LastPlay[1]]) :
       /\ Suit(sim.st.hand[LastPlay[1]][k]) = trump_suit
       /\ card_rank(sim.st.hand[LastPlay[1]][k]) > card_rank(LastPlay[2])

\* C13: during and after every round each partnership's trick points are
\* non-negative and the two together, last-trick bonus included, are at
\* most 49; so are the trick points returned by the trick step.
TrickPointsBounded ==
  /\ sim.pc # "idle" =>
       /\ sim.st.ML >= 0
       /\ sim.st.OPP >= 0
       /\ sim.st.ML + sim.st.OPP <= 49
  /\ info = "ml_total" =>
       /\ totals[3] >= 0
       /\ totals[4] >= 0
       /\ totals[3] + totals[4] <= 49

\* A round has been completed in which both partnerships took trick points.
TrickPointsBoundedWitness ==
  /\ sim.pc = "done"
  /\ info = "ml_total"
  /\ totals[3] > 0
  /\ totals[4] > 0
  /\ totals[3] = sim.st.ML

\* The value the meld table gives the meld of that name.
MeldValue(name) ==
  meldHands[CHOOSE k \in 1..Len(meldHands) : meldHands[k].name = name].value

\* The cards that some configured meld names.
MeldCards == UNION {meldHands[k].cards : k \in 1..Len(meldHands)}

\* The evaluated hand holds every ace twice and no other card that a meld
\* names.
OnlyDoubleAces ==
  /\ meld.pc = "evaluated"
  /\ \A c \in OfValue("A") : Count(meld.hand, c) = 2
  /\ \A k \in 1..Len(meld.hand) :
       meld.hand[k] \in MeldCards => meld.hand[k] \in OfValue("A")

\* C14 (as claimed): a hand whose only meld cards are the four aces, each
\* held twice, scores exactly the 'All Aces' value of the table.
DoubleAcesScoreAllAces ==
  OnlyDoubleAces => meld.points = MeldValue("All Aces")

\* C14 (amended): such a hand scores the 'All Aces' value plus the 'Round Of
\* Aces' value of the table, both melds being held.
DoubleAcesScoreBoth ==
  OnlyDoubleAces => meld.points = MeldValue("All Aces") + MeldValue("Round Of Aces")

\* The 12-card hand of eight aces and four nines has been evaluated.
DoubleAcesScoreBothWitness ==
  /\ OnlyDoubleAces
  /\ Len(meld.hand) = 12
  /\ meld.points = 100

\* C15: evaluate is monotonic: evaluating a hand with one more card never
\* gives fewer points than the hand without it; and a hand holding no card
\* that a configured meld names scores 0.
EvaluateMonotonic ==
  [][/\ (meld.pc = "evaluated" /\ meld'.pc = "evaluated")
          => meld'.points >= meld.points
     /\ (meld'.pc = "evaluated"
          /\ \A k \in 1..Len(meld'.hand) : meld'.hand[k] \notin MeldCards)
          => meld'.points = 0]_vars

\* A card added to an evaluated hand has completed a meld and raised the
\* score.
EvaluateMonotonicWitness ==
  /\ meld.pc = "evaluated"
  /\ meld.added > 0
  /\ meld.points > evaluate(ButLast(meld.hand))
  /\ evaluate(ButLast(meld.hand)) > 0

\* C16: after reset(), in whatever phase and after whatever steps it is
\* called, the environment is in the bidding phase with current_bid 20, all
\* four seats active, seat 0 to act, an empty bidding history and a fresh
\* deal of the whole deck, 12 cards to each seat.
ResetStartsBidding ==
  info = "reset" =>
    /\ phase = "bidding"
    /\ current_bid = 20
    /\ \A s \in Seats : active[s]
    /\ current_turn = 0
    /\ bidding_history = <<>>
    /\ \A s \in Seats : Len(hands[s]) = 12
    /\ \A c \in AllCards : HeldByAll(c) = occurrences

\* reset() has been called after the bidding of an earlier round had been
\* resolved (the winner and trump it recorded are still in place).
ResetStartsBiddingWitness ==
  /\ info = "reset"
  /\ winning_player \in Seats
  /\ main_reward = 0
  /\ trump_suit # "none"

\* The rank order 9 < J < Q < K < 10 < A written out as positions.
RankOrder == <<"9", "J", "Q", "K", "10", "A">>
RankIn(c) == CHOOSE k \in 1..Len(RankOrder) : RankOrder[k] = Value(c)

\* Play w of a complete trick wins it: it is the highest-ranked trump of the
\* trick, or with no trump in the trick the highest-ranked card of the suit
\* of the first play.
WinsTrick(trick_cards, w, trump) ==
  LET led == Suit(trick_cards[1][2])
      Of(s) == {k \in 1..Len(trick_cards) : Suit(trick_cards[k][2]) = s}
      Best(ks) == /\ w \in ks
                  /\ \A k \in ks : RankIn(trick_cards[w][2]) >= RankIn(trick_cards[k][2])
  IN IF Of(trump) # {} THEN Best(Of(trump)) ELSE Best(Of(led))

\* The move of the playout iteration being taken: the card that leaves the
\* hand of the seat to move.
MovePlayed ==
  LET p == PlayoutPlayer(playout.state)
      hand == playout.state.hands[p]
  IN CHOOSE c \in {hand[k] : k \in 1..Len(hand)} :
       playout'.state.hands[p] = Remove(hand, c)

\* The trick completed by the playout iteration being taken.
MoveTrick ==
  Append(playout.state.current_trick, <<PlayoutPlayer(playout.state), MovePlayed>>)

\* C19: when simulate_round, and when _simulate_move, resolves a trick, the
\* winner is the seat that played the highest-ranked trump, or with no trump
\* played the highest-ranked card of the led suit, under the order
\* 9 < J < Q < K < 10 < A; the winner is the next leader and the points of
\* the trick are credited to the winner's partnership (in the playout: added
\* to the score when the winner is seat 0 or 2, subtracted otherwise).
TrickResolution ==
  [][/\ (sim.pc = "resolve" /\ sim'.pc \in {"turn", "score"}) =>
          \E w \in 1..Len(sim.st.trick_cards) :
            /\ WinsTrick(sim.st.trick_cards, w, trump_suit)
            /\ Suit(sim.st.trick_cards[1][2]) = sim.st.led
            /\ sim'.st.leader = sim.st.trick_cards[w][1]
            /\ LET pts == TrickPoints(sim.st.trick_cards, sim.trick)
                   ml == TeamOf(sim'.st.leader) = "ML"
               IN /\ sim'.st.ML = sim.st.ML + (IF ml THEN pts ELSE 0)
                  /\ sim'.st.OPP = sim.st.OPP + (IF ml THEN 0 ELSE pts)
     /\ (/\ playout.pc = "run"
         /\ Len(playout.state.current_trick) = 3
         /\ playout' # playout) =>
          \E w \in 1..4 :
            /\ WinsTrick(MoveTrick, w, trump_suit)
            /\ playout'.state.leader = MoveTrick[w][1]
            /\ playout'.state.current_trick = <<>>
            /\ playout'.state.trick_number = playout.state.trick_number + 1
            /\ LET pts == TrickPoints(MoveTrick, playout.state.trick_number)
               IN playout'.total_score =
                    playout.total_score
                      + (IF TeamOf(playout'.state.leader) = "ML" THEN pts ELSE -pts)]_vars

\* The card seat s has played in the first trick of the playout.
FirstPlayed(s) ==
  CHOOSE c \in {hands[s][k] : k \in 1..Len(hands[s])} :
    playout.state.hands[s] = Remove(hands[s], c)

\* The playout has resolved its first trick: a trump took it from a led suit
\* other than trump, a card of the led suit outranks that trump, the seat
\* that played the trump leads the second trick and the score has moved by
\* the points of the trick.
TrickResolutionWitness ==
  /\ playout.pc = "run"
  /\ playout.state.trick_number = 1
  /\ playout.state.current_trick = <<>>
  /\ Suit(FirstPlayed(winning_player)) # trump_suit
  /\ Suit(FirstPlayed(playout.state.leader)) = trump_suit
  /\ \E s \in Seats :
       /\ Suit(FirstPlayed(s)) = Suit(FirstPlayed(winning_player))
       /\ card_rank(FirstPlayed(s)) > card_rank(FirstPlayed(playout.state.leader))
  /\ playout.total_score # 0

Mover == PlayoutPlayer(playout.state)
MoverHand == playout.state.hands[Mover]
MoverHeld(s) == {MoverHand[k] : k \in {j \in 1..Len(MoverHand) : Suit(MoverHand[j]) = s}}
MoveLed == Suit(playout.state.current_trick[1][2])
MoveInTrick(s) ==
  {playout.state.current_trick[k][2] :
     k \in {j \in 1..Len(playout.state.current_trick) :
              Suit(playout.state.current_trick[j][2]) = s}}

\* An iteration of the playout in which a card is played.
MoveTurn ==
  /\ playout.pc = "run"
  /\ playout'.state.hands # playout.state.hands

\* The contract winner leads, holding the Ace of trump, and leads it.
LeadsTrumpAce ==
  (/\ playout.state.current_trick = <<>>
   /\ Mover = winning_player
   /\ <<"A", trump_suit>> \in MoverHeld(trump_suit))
    => MovePlayed = <<"A", trump_suit>>

\* A follower that can beat the best led-suit card of a trumpless trick
\* whose led suit is not trump plays its lowest beating card.
OvertakesLowest ==
  (/\ playout.state.current_trick # <<>>
   /\ MoveLed # trump_suit
   /\ MoveInTrick(trump_suit) = {}
   /\ \E c \in MoverHeld(MoveLed) : card_rank(c) > BestRank(MoveInTrick(MoveLed)))
    => /\ MovePlayed \in MoverHeld(MoveLed)
       /\ card_rank(MovePlayed) > BestRank(MoveInTrick(MoveLed))
       /\ \A c \in MoverHeld(MoveLed) :
            card_rank(c) > BestRank(MoveInTrick(MoveLed))
              => card_rank(MovePlayed) <= card_rank(c)

\* A seat void in the led suit that holds a trump plays a trump.
VoidPlaysTrump ==
  (/\ playout.state.current_trick # <<>>
   /\ MoverHeld(MoveLed) = {}
   /\ MoverHeld(trump_suit) # {})
    => Suit(MovePlayed) = trump_suit

\* C20 (as claimed): every card played in a random playout is legal under
\* the rules of the trick engine: the contract winner holding the Ace of
\* trump leads it, a follower able to beat the best led-suit card (no trump
\* in the trick, led suit not trump) plays its lowest beating card, and a
\* seat void in the led suit that holds a trump plays a trump.
PlayoutMovesLegal ==
  [][MoveTurn => (LeadsTrumpAce /\ OvertakesLowest /\ VoidPlaysTrump)]_vars

\* The contract-team total of the round played after the exchange of combo k
\* on the hands as they were when the passing step was called.
EntryTotal(k) ==
  Let(TrialHands(oracle.entry[0], oracle.entry[2], k), LAMBDA t :
    simulate_round(WithHands(oracle.entry, t[1], t[2]), winning_player, trump_suit)[1])

\* The greatest of these totals over the 220 combos.
EntryBest ==
  Let({EntryTotal(k) : k \in 0..(NumCombinations - 1)}, LAMBDA ts :
    CHOOSE v \in ts : \A w \in ts : w <= v)

\* C21 (as claimed): when the passing step returns, the optimal value its
\* reward is measured against is the greatest total over the 220 subsets of
\* the partner hand as it was before the exchange, it is not below the
\* agent's total, and the reward is 0 exactly when the agent's total is that
\* greatest total.
PassRewardMeasuresBest ==
  oracle.pc = "done" =>
    Let(EntryBest, LAMBDA best :
      /\ oracle.optimal_value = best
      /\ oracle.optimal_value >= oracle.agent_ml_total
      /\ oracle.pass_reward = 0 <=> oracle.agent_ml_total = best)

\* The partner of a seat.
PartnerOf(seat) == (seat + 2) % 4

\* C22 (as claimed): in the passing step the 3 selected cards leave the hand
\* of the contract winner's partner and enter the hand of the contract
\* winner, and the 3 returned cards leave the winner's hand and enter the
\* partner's, whether seat 0 or seat 2 holds the contract.
PassingTowardsBidder ==
  [][(phase = "passing" /\ phase' = "trick") =>
       /\ winning_player \in {0, 2}
       /\ \A c \in AllCards :
            /\ Count(hands'[winning_player], c)
                 = Count(hands[winning_player], c)
                     + Count(passed_cards', c) - Count(passed_back', c)
            /\ Count(hands'[PartnerOf(winning_player)], c)
                 = Count(hands[PartnerOf(winning_player)], c)
                     - Count(passed_cards', c) + Count(passed_back', c)]_vars

\* C23 (as claimed): the score of a playout is the trick-point differential
\* in favour of the contract partnership: the iteration that completes a
\* trick adds the points of the trick when the seat that takes it belongs to
\* the partnership that won the bidding and subtracts them otherwise.
PlayoutScoreFavoursContract ==
  [][(/\ playout.pc = "run"
      /\ Len(playout.state.current_trick) = 3
      /\ playout' # playout) =>
       LET pts == TrickPoints(MoveTrick, playout.state.trick_number)
       IN playout'.total_score =
            playout.total_score
              + (IF TeamOf(playout'.state.leader) = winning_team
                 THEN pts ELSE -pts)]_vars

\* <<k, total>> for each of the 220 combos: the contract-team total of the
\* round played after the exchange of combo k on the hands hs.
TrialTotals(hs) ==
  {<<k, Let(TrialHands(hs[0], hs[2], k), LAMBDA t :
          simulate_round(WithHands(hs, t[1], t[2]), winning_player, trump_suit)[1])>> :
     k \in 0..(NumCombinations - 1)}

\* C24: compute_optimal_pass, called on hands of 12 cards, returns a combo
\* of the 220 and its total such that, each combo being a 3-subset of the
\* sorted partner hand exchanged by the rule of the passing step (the bidder
\* returns its 3 lowest-ranked cards), no combo has a greater total and no
\* earlier combo has an equal one.
OptimalPassIsFirstBest ==
  oracle.pc = "done" =>
    Let(TrialTotals(hands), LAMBDA tot :
      /\ NumCombinations = 220
      /\ Len(hands[2]) = 12
      /\ <<oracle.optimal_combo, oracle.optimal_value>> \in tot
      /\ \A p \in tot :
           /\ p[2] <= oracle.optimal_value
           /\ p[1] < oracle.optimal_combo => p[2] < oracle.optimal_value)

\* compute_optimal_pass has returned a combo other than the first one and
\* other than the last one that reaches the best total, and that total is
\* above the total of the hands it was called on.
OptimalPassIsFirstBestWitness ==
  /\ oracle.pc = "done"
  /\ oracle.optimal_combo > 0
  /\ oracle.optimal_value > oracle.agent_ml_total
  /\ \E p \in TrialTotals(hands) :
       p[1] > oracle.optimal_combo /\ p[2] = oracle.optimal_value

\* A turn of the stepped round by the seat that leads the trick.
LeadTurn ==
  /\ sim.pc = "turn"
  /\ sim.st.led = "none"
  /\ Len(sim'.plays) = Len(sim.plays) + 1

\* The cards of the hand of the seat to act.
Held == {ActorHand[k] : k \in 1..Len(ActorHand)}

\* C25: in every trick of simulate_round, the contract winner leading while
\* it holds the Ace of trump leads that Ace; any other lead is the
\* highest-ranked card among the leader's non-trump cards, or the
\* lowest-ranked card of the hand when the leader holds only trump.
LeaderRule ==
  [][LeadTurn =>
       IF Actor = winning_player /\ <<"A", trump_suit>> \in Held
       THEN PlayedCard = <<"A", trump_suit>>
       ELSE IF Held \ HeldOf(trump_suit) # {}
            THEN /\ PlayedCard \in Held \ HeldOf(trump_suit)
                 /\ \A c \in Held \ HeldOf(trump_suit) :
                      card_rank(c) <= card_rank(PlayedCard)
            ELSE /\ PlayedCard \in Held
                 /\ \A c \in Held : card_rank(PlayedCard) <= card_rank(c)]_vars

\* After the first trick the contract winner has led the Ace of trump while
\* it held a card of another suit.
LeaderRuleWitness ==
  /\ sim.pc = "turn"
  /\ sim.trick >= 1
  /\ sim.i = 1
  /\ sim.st.trick_cards = <<<<winning_player, <<"A", trump_suit>>>>>>
  /\ \E k \in 1..Len(sim.st.hand[winning_player]) :
       Suit(sim.st.hand[winning_player][k]) # trump_suit

\* The canonical order of the suits, and the number of cards of a suit in a
\* hand.
CanonicalSuits == <<"C", "D", "H", "S">>
CardsOfSuit(hand, s) == Cardinality({k \in 1..Len(hand) : hand[k][2] = s})

\* The hand the trump is chosen from when `winner` takes the contract.
ReferenceHand(winner) == IF winner \in {0, 2} THEN hands[0] ELSE hands[winner]

\* Suit number k of the canonical order has the greatest count in the hand
\* and no suit before it has as many cards.
FirstLongest(hand, k) ==
  /\ \A j \in 1..4 :
       CardsOfSuit(hand, CanonicalSuits[j]) <= CardsOfSuit(hand, CanonicalSuits[k])
  /\ \A j \in 1..(k - 1) :
       CardsOfSuit(hand, CanonicalSuits[j]) < CardsOfSuit(hand, CanonicalSuits[k])

\* C26: the step that ends the bidding with a winner records as trump a
\* suit with the greatest card count in the reference hand (hands[0] when
\* seat 0 or 2 wins, else the winner's hand), the first such suit in the
\* order C, D, H, S.
TrumpIsFirstLongest ==
  [][(phase = "bidding" /\ phase' \in {"passing", "trick"}) =>
       \E k \in 1..4 :
         /\ trump_suit' = CanonicalSuits[k]
         /\ FirstLongest(ReferenceHand(winning_player'), k)]_vars

\* The bidding has just ended and two suits share the greatest count in the
\* reference hand; the trump recorded is not the last suit of the order
\* among them.
TrumpIsFirstLongestWitness ==
  /\ info = "bidding_history"
  /\ phase \in {"passing", "trick"}
  /\ \E k \in 1..4 : \E j \in (k + 1)..4 :
       /\ trump_suit = CanonicalSuits[k]
       /\ FirstLongest(ReferenceHand(winning_player), k)
       /\ CardsOfSuit(ReferenceHand(winning_player), CanonicalSuits[j])
            = CardsOfSuit(ReferenceHand(winning_player), CanonicalSuits[k])

\* The bid from which the seats 1, 2 and 3 only pass (line 126).
RandomBidCap == 50

\* The seats other than seat 0 that have not passed, and the number of steps
\* until the turn of one of them.
ActiveNonML == {s \in Seats \ {0} : active[s]}
TurnsToActiveNonML ==
  CHOOSE d \in 0..3 :
    /\ ((current_turn + d) % 4) \in ActiveNonML
    /\ \A e \in 0..(d - 1) : ((current_turn + e) % 4) \notin ActiveNonML

\* A bound on the bidding steps that can still follow: a seat that is
\* active on its turn either passes or raises the bid, seats 1, 2 and 3
\* raise only below RandomBidCap, and among four successive turns one belongs
\* to an active seat other than seat 0.
BidMeasure ==
  4 * (NumActive(active) + Max(0, RandomBidCap - current_bid)) + TurnsToActiveNonML

\* C27: the bidding phase ends after a bounded number of steps: every
\* bidding step that leaves the phase at bidding lowers BidMeasure, a
\* natural number (137 at the start of a round), and every run of bidding
\* steps leads to a step after which a contract winner is recorded and the
\* phase is no longer bidding, or which returns done with the redeal.
BiddingTerminates ==
  /\ [][(phase = "bidding" /\ phase' = "bidding" /\ info' = "bidding_history")
          => (BidMeasure' >= 0 /\ BidMeasure' < BidMeasure)]_vars
  /\ <>(phase # "bidding" \/ done)

\* A bidding phase has ended after more than two rounds of the table, in
\* which a seat bid again after it had passed.
BiddingTerminatesWitness ==
  /\ phase # "bidding"
  /\ Len(bidding_history) > 8
  /\ \E i \in 1..Len(bidding_history) : \E j \in (i + 1)..Len(bidding_history) :
       /\ bidding_history[i][1] = bidding_history[j][1]
       /\ bidding_history[i][2] = 0
       /\ bidding_history[j][2] # 0

\* A bidding step that records a contract winner.
BiddingResolves == phase = "bidding" /\ phase' # "bidding"

\* The seats with a pass in the history hist, and the seat of the last
\* entry of hist that is not a pass (NoValue when every entry is a pass).
PassedSeats(hist) == {hist[i][1] : i \in {j \in 1..Len(hist) : hist[j][2] = 0}}
Raises(hist) == {i \in 1..Len(hist) : hist[i][2] # 0}
StandingBidder(hist) ==
  IF Raises(hist) = {} THEN NoValue
  ELSE hist[CHOOSE i \in Raises(hist) : \A j \in Raises(hist) : j <= i][1]

ForwardPhases ==
  {<<"bidding", "passing">>, <<"bidding", "trick">>, <<"passing", "trick">>}

\* The contract is recorded: a winning seat, a trump suit, twelve cards in
\* every hand.
ContractRecorded ==
  /\ winning_player \in Seats
  /\ trump_suit \in {suits[k] : k \in 1..Len(suits)}
  /\ \A s \in Seats : Len(hands[s]) = 12

\* C29: a step changes the phase only forwards, bidding to passing or
\* trick and passing to trick, and only reset() or the redeal start a new
\* round at bidding; the step that resolves the bidding leads to passing
\* exactly when the winner recorded by that step is seat 0 or 2 and to trick
\* otherwise; in the passing and trick phases the winner and the trump suit
\* are those recorded by the resolving step of the same round and every hand
\* has 12 cards; done is returned only by the trick step and by the redeal.
PhaseOrdering ==
  [][/\ (phase' # phase /\ info' # "reset") => <<phase, phase'>> \in ForwardPhases
     /\ (phase' = "bidding" /\ phase # "bidding") => info' = "reset"
     /\ BiddingResolves =>
          /\ phase' = (IF winning_player' \in {0, 2} THEN "passing" ELSE "trick")
          /\ PassedSeats(bidding_history') = Seats \ {winning_player'}
     /\ phase' \in {"passing", "trick"} => ContractRecorded'
     /\ (phase \in {"passing", "trick"} /\ phase' \in {"passing", "trick"})
          => UNCHANGED <<winning_player, trump_suit, bidding_history>>
     /\ done' => \/ phase = "trick" /\ phase' = "trick" /\ info' = "ml_total"
                 \/ phase = "bidding" /\ phase' = "bidding" /\ info' = "redeal"
                      /\ bidding_history' = <<>>
    ]_vars

\* A round won by seat 2 went from bidding through passing to trick.
PhaseOrderingWitness ==
  /\ phase = "trick"
  /\ info = "passed_cards"
  /\ ~done
  /\ winning_player = 2
  /\ ContractRecorded

\* The round state the evaluators read.
RoundState == <<hands, trump_suit, winning_player, winning_bid, phase>>

\* self.hands when compute_optimal_pass is called (line 168): the hands at
\* the call of step after the exchange of the agent's passed_cards.
AfterExchange ==
  Let(Exchange(oracle.entry[0], oracle.entry[2], passed_cards),
      LAMBDA ex : WithHands(oracle.entry, ex[1], ex[2]))

\* C30: the evaluators leave the round state as it was at their call.
\* Every step of the playout of compute_optimal_value and of simulate_round
\* leaves the hands, the trump suit, the winner, the winning bid and the
\* phase unchanged (they work on copies); inside compute_optimal_pass the
\* trump suit, the winner, the winning bid and the phase never change, and
\* before every trial, at its return and through the evaluator calls that
\* follow in the trick step, self.hands is again the four hands it was
\* called with.
EvaluatorsReadOnly ==
  [][/\ (playout' # playout \/ sim' # sim) => RoundState' = RoundState
     /\ oracle.pc \in {"trial", "simulate"}
          => UNCHANGED <<trump_suit, winning_player, winning_bid, phase>>
     /\ (oracle'.pc \in {"trial", "return", "done"} /\ sim'.pc # "done")
          => hands' = AfterExchange'
    ]_vars

\* The three evaluators have run: compute_optimal_pass returned a combo
\* after its trials, the lookahead has returned and simulate_round has
\* played every card of its copies, and self.hands still holds the 48 cards
\* as they were after the exchange.
EvaluatorsReadOnlyWitness ==
  /\ oracle.pc = "done"
  /\ oracle.optimal_combo # NoCombo
  /\ sim.pc = "score"
  /\ \A s \in Seats : sim.st.hand[s] = <<>> /\ Len(hands[s]) = 12
  /\ hands = AfterExchange
  /\ hands # oracle.entry
====
